---- MODULE Spec2Model ----
(***************************************************************************)
(* Model of src/monopolyService.ts: the startup chain                      *)
(* connect -> setupDatabase -> listen, the three tables Player, Game and   *)
(* PlayerGame behind the single pg Client, and the seven Express routes.   *)
(* Every db.query is one atomic step on the shared connection; the only    *)
(* handler with two queries, GET /games/:id, is two steps, so that other   *)
(* requests interleave between its join and its existence check.           *)
(***************************************************************************)
EXTENDS Integers, Sequences, FiniteSets, TLC

VARIABLES
    phase,      \* position of the startup promise chain
    failure,    \* which startup stage rejected: "none", "connect", "setup"
    exitCode,   \* -1 while the process runs, else the status given to process.exit
    schemaReady,\* the setup script has run to completion on this connection
    db,         \* the three tables
    pending,    \* GET /games/:id requests awaiting their existence check
    last,       \* the request completed by the latest handler step
    pre,        \* the tables as they were before that step
    repeat      \* `last` is a DELETE of the row that the request completed just
                \* before it deleted through the same route

vars == <<phase, failure, exitCode, schemaReady, db, pending, last, pre, repeat>>

(***************************************************************************)
(* Bounds                                                                  *)
(***************************************************************************)
\* GET /games/:id requests that may be between their two queries at once
MaxInFlight == 2

(***************************************************************************)
(* Path parameters.  req.params.id is the raw URL segment, a string; it is *)
(* written here as the tuple of its characters.                            *)
(***************************************************************************)
PathIds ==
    { <<"1">>, <<"2">>, <<"3">>, <<"4">>, <<"0", "3">>, <<"x">>,
      <<"2", "1", "4", "7", "4", "8", "3", "6", "4", "8">> }

\* largest value of the INTEGER type behind SERIAL
Int4Max == 2147483647

ErrSyntax == "invalid input syntax for type integer"
ErrRange == "value out of range for type integer"
ErrConnection == "connection terminated"

Digits == {"0", "1", "2", "3", "4", "5", "6", "7", "8", "9"}

DigitVal(c) ==
    CASE c = "0" -> 0 [] c = "1" -> 1 [] c = "2" -> 2 [] c = "3" -> 3
      [] c = "4" -> 4 [] c = "5" -> 5 [] c = "6" -> 6 [] c = "7" -> 7
      [] c = "8" -> 8 [] c = "9" -> 9

\* the digits of s from position i on, accumulated onto acc; -1 when a
\* character is no digit, -2 when the value leaves the INTEGER range
RECURSIVE ParseDigits(_, _, _)
ParseDigits(s, i, acc) ==
    IF i > Len(s) THEN acc
    ELSE IF s[i] \notin Digits THEN -1
    ELSE IF acc > (Int4Max - DigitVal(s[i])) \div 10 THEN
        (IF \A j \in i..Len(s) : s[j] \in Digits THEN -2 ELSE -1)
    ELSE ParseDigits(s, i + 1, acc * 10 + DigitVal(s[i]))

\* The server's coercion of the text parameter $1 to the INTEGER column it is
\* compared with: an optional sign and decimal digits, else the statement
\* fails (blanks, which the server would skip, are not in the alphabet of
\* PathIds).
ParseInt4(s) ==
    LET signed == Len(s) > 0 /\ s[1] \in {"+", "-"}
        first == IF signed THEN 2 ELSE 1
        n == IF first > Len(s) THEN -1 ELSE ParseDigits(s, first, 0)
    IN  IF n = -1 THEN [ok |-> FALSE, val |-> 0, err |-> ErrSyntax]
        ELSE IF n = -2 THEN [ok |-> FALSE, val |-> 0, err |-> ErrRange]
        ELSE [ok |-> TRUE, val |-> IF signed /\ s[1] = "-" THEN -n ELSE n,
              err |-> ""]

(***************************************************************************)
(* The seed written by the setup script                                    *)
(***************************************************************************)
SeedPlayer ==
    { [id |-> 1, name |-> "Sebastian", email |-> "seb@example.com"],
      [id |-> 2, name |-> "Mr. Monopoly", email |-> "moneybags@example.com"],
      [id |-> 3, name |-> "Thimble", email |-> "thimble@example.com"] }

\* time is in days relative to the moment the script runs
SeedGame ==
    { [id |-> 1, time |-> -2], [id |-> 2, time |-> -1], [id |-> 3, time |-> 0] }

SeedPlayerGame ==
    { [gameID |-> 1, playerID |-> 1, score |-> 1500],
      [gameID |-> 1, playerID |-> 2, score |-> 2500],
      [gameID |-> 2, playerID |-> 1, score |-> 3200],
      [gameID |-> 2, playerID |-> 2, score |-> 1800],
      [gameID |-> 2, playerID |-> 3, score |-> 500],
      [gameID |-> 3, playerID |-> 2, score |-> 5000],
      [gameID |-> 3, playerID |-> 3, score |-> 4500] }

SeedDb == [Player |-> SeedPlayer, Game |-> SeedGame, PlayerGame |-> SeedPlayerGame]

EmptyDb == [Player |-> {}, Game |-> {}, PlayerGame |-> {}]

\* the tables an earlier run of the service may have left behind
PriorDbs ==
    { EmptyDb, SeedDb,
      [Player |-> {r \in SeedPlayer : r.id # 2},
       Game |-> {r \in SeedGame : r.id = 1},
       PlayerGame |-> {r \in SeedPlayerGame : r.gameID = 1 /\ r.playerID = 1}] }

\* sqlScript: the three tables are dropped whatever they held, created empty,
\* and the sample rows inserted; SERIAL numbers the rows of a fresh table 1..3
SetupScript(d) == SeedDb

(***************************************************************************)
(* Statements run through db.query.  A SELECT yields the set of row        *)
(* sequences the server may return (ORDER BY leaves ties unordered); a     *)
(* DELETE yields the rows it returns and the tables it leaves.             *)
(***************************************************************************)
Perms(S) ==
    {f \in [1..Cardinality(S) -> S] : \A x \in S : \E i \in DOMAIN f : f[i] = x}

\* position of a seeded name in the collation of the Player.name column
NameRank(name) ==
    CASE name = "Mr. Monopoly" -> 1
      [] name = "Sebastian" -> 2
      [] name = "Thimble" -> 3

\* ORDER BY name
NameAsc(a, b) == NameRank(a.name) <= NameRank(b.name)

\* ORDER BY time DESC
TimeDesc(a, b) == a.time >= b.time

\* ORDER BY PG.score ASC, the order the handler does not ask for
ScoreAsc(a, b) == a.pg.score <= b.pg.score

\* ORDER BY PG.score DESC
ScoreDesc(a, b) == a.pg.score >= b.pg.score

\* whether row a may precede row b under the ORDER BY clause `order`
Precedes(a, b, order) ==
    CASE order = "name" -> NameAsc(a, b)
      [] order = "time DESC" -> TimeDesc(a, b)
      [] order = "score ASC" -> ScoreAsc(a, b)
      [] order = "score DESC" -> ScoreDesc(a, b)

\* the enumerations of rows S that the ORDER BY clause allows
Orderings(S, order) ==
    {f \in Perms(S) : \A i, j \in DOMAIN f : i < j => Precedes(f[i], f[j], order)}

\* SELECT * FROM Player ORDER BY name
SelectPlayers(d) == Orderings(d.Player, "name")

\* SELECT * FROM Game ORDER BY time DESC
SelectGames(d) == Orderings(d.Game, "time DESC")

\* SELECT * FROM Player WHERE id = $1
SelectPlayerById(d, n) == Perms({r \in d.Player : r.id = n})

\* a statement that finds every id, whatever the table holds
SelectGameByIdAny(d, n) == {<<[id |-> n, time |-> 0]>>}

\* SELECT * FROM Game WHERE id = $1
SelectGameById(d, n) == Perms({r \in d.Game : r.id = n})

\* Player P JOIN PlayerGame PG ON P.id = PG.playerID WHERE PG.gameID = $1
JoinRows(d, n) ==
    {[p |-> p, pg |-> pg] : <<p, pg>> \in
        {x \in d.Player \X d.PlayerGame : x[1].id = x[2].playerID /\ x[2].gameID = n}}

\* SELECT P.name, PG.score of the join
Project(f) == [i \in DOMAIN f |-> [name |-> f[i].p.name, score |-> f[i].pg.score]]

\* the join listed with the lowest score first
SelectScoresAsc(d, n) == {Project(f) : f \in Orderings(JoinRows(d, n), "score ASC")}

\* SELECT P.name, PG.score ... WHERE PG.gameID = $1 ORDER BY PG.score DESC
SelectScores(d, n) == {Project(f) : f \in Orderings(JoinRows(d, n), "score DESC")}

\* a foreign key that leaves the referencing rows in place
NoCascade(rows, col, n) == rows

\* REFERENCES ... ON DELETE CASCADE on column col of PlayerGame
Cascade(rows, col, n) ==
    {r \in rows : (IF col = "gameID" THEN r.gameID ELSE r.playerID) # n}

\* a DELETE that reports the rows but removes nothing
DeletePlayerKept(d, n) == [rows |-> Perms({r \in d.Player : r.id = n}), db |-> d]

\* DELETE FROM Player WHERE id = $1 RETURNING *
DeletePlayerById(d, n) ==
    [rows |-> Perms({r \in d.Player : r.id = n}),
     db |-> [d EXCEPT !.Player = {r \in d.Player : r.id # n},
                      !.PlayerGame = Cascade(d.PlayerGame, "playerID", n)]]

\* a DELETE on a Game table whose rows PlayerGame does not follow
DeleteGameNoCascade(d, n) ==
    [rows |-> Perms({r \in d.Game : r.id = n}),
     db |-> [d EXCEPT !.Game = {r \in d.Game : r.id # n}]]

\* DELETE FROM Game WHERE id = $1 RETURNING *
DeleteGameById(d, n) ==
    [rows |-> Perms({r \in d.Game : r.id = n}),
     db |-> [d EXCEPT !.Game = {r \in d.Game : r.id # n},
                      !.PlayerGame = Cascade(d.PlayerGame, "gameID", n)]]

(***************************************************************************)
(* db.query(text, [id]): the outcome of one statement.  It rejects when    *)
(* the connection breaks or when the server cannot read $1 as an INTEGER;  *)
(* a rejected statement changes no table.                                  *)
(***************************************************************************)
Rejected(err) == [ok |-> FALSE, rows |-> <<>>, err |-> err]
Resolved(rows) == [ok |-> TRUE, rows |-> rows, err |-> ""]

\* the rejection, if any, of a statement whose parameter is the path id
ParamError(id, broken) ==
    IF broken THEN ErrConnection
    ELSE IF ~ParseInt4(id).ok THEN ParseInt4(id).err
    ELSE ""

(***************************************************************************)
(* Responses.  res.status(..).json(..), res.json(..) and res.send(..)      *)
(***************************************************************************)
Response(status, shape, rows, error, message) ==
    [status |-> status, shape |-> shape, rows |-> rows, error |-> error,
     message |-> message]

\* a catch block that hands the error's text to the caller
CatchResponseLeak(err) == Response(500, "error", <<>>, err, "")

\* catch (err) { console.error(err); res.status(500).json({error: ...}) }
CatchResponse(err) == Response(500, "error", <<>>, "Internal server error", "")

NotFound(error) == Response(404, "error", <<>>, error, "")

\* the calls on res made by each handler, in order, given its query result
GetRootSends == <<Response(200, "text", <<>>, "", "Hello, CS 262 Monopoly service!")>>

ListSends(result) ==
    IF ~result.ok THEN <<CatchResponse(result.err)>>
    ELSE <<Response(200, "array", result.rows, "", "")>>

GetPlayerSends(result) ==
    IF ~result.ok THEN <<CatchResponse(result.err)>>
    ELSE IF Len(result.rows) = 0 THEN <<NotFound("Player not found")>>
    ELSE <<Response(200, "object", <<result.rows[1]>>, "", "")>>

DeletePlayerSends(result) ==
    IF ~result.ok THEN <<CatchResponse(result.err)>>
    ELSE IF Len(result.rows) = 0 THEN <<NotFound("Player not found")>>
    ELSE <<Response(200, "deleted", <<result.rows[1]>>, "",
                    "Player deleted successfully")>>

DeleteGameSends(result) ==
    IF ~result.ok THEN <<CatchResponse(result.err)>>
    ELSE IF Len(result.rows) = 0 THEN <<NotFound("Game not found")>>
    ELSE <<Response(200, "deleted", <<result.rows[1]>>, "",
                    "Game deleted successfully")>>

\* a handler that takes an empty join for an unknown game
GameExistsSendsNoCheck(gameExists) ==
    IF ~gameExists.ok THEN <<CatchResponse(gameExists.err)>>
    ELSE <<NotFound("Game not found")>>

\* GET /games/:id after its second query
GameExistsSends(gameExists) ==
    IF ~gameExists.ok THEN <<CatchResponse(gameExists.err)>>
    ELSE IF Len(gameExists.rows) = 0 THEN <<NotFound("Game not found")>>
    ELSE <<Response(200, "array", <<>>, "", "")>>

(***************************************************************************)
(* History kept for the properties                                         *)
(***************************************************************************)
\* what one read of tables d, taken alone, answers to GET /games/n
AtomicGetGame(d, n) ==
    IF \E pg \in d.PlayerGame : pg.gameID = n /\ \E p \in d.Player : p.id = pg.playerID
    THEN {Response(200, "array", rows, "", "") : rows \in SelectScores(d, n)}
    ELSE IF \E g \in d.Game : g.id = n
    THEN {Response(200, "array", <<>>, "", "")}
    ELSE {NotFound("Game not found")}

NoRequest ==
    [route |-> "none", id |-> <<>>, sent |-> <<>>, failed |-> FALSE, err |-> "",
     answers |-> {}]

\* a request through `route` for path id `id` asks again for the row that the
\* request l deleted
Repeats(l, route, id) ==
    /\ route \in {"DELETE /players/:id", "DELETE /games/:id"}
    /\ l.route = route
    /\ Len(l.sent) = 1 /\ l.sent[1].status = 200
    /\ ParseInt4(id).ok
    /\ ParseInt4(id).val = ParseInt4(l.id).val

\* the pending requests, each told of the tables d2 now in place
Witnessed(ps, d2) ==
    {[p EXCEPT !.answers = @ \cup AtomicGetGame(d2, ParseInt4(p.id).val)] : p \in ps}

\* a handler step that answers the request: result is the outcome of the
\* step's query, d2 the tables it leaves, ps the requests still pending
Complete(route, id, sent, result, answers, d2, ps) ==
    /\ last' = [route |-> route, id |-> id, sent |-> sent, failed |-> ~result.ok,
                err |-> result.err, answers |-> answers]
    /\ pre' = db
    /\ repeat' = Repeats(last, route, id)
    /\ db' = d2
    /\ pending' = IF d2 = db THEN ps ELSE Witnessed(ps, d2)
    /\ UNCHANGED <<phase, failure, exitCode, schemaReady>>

(***************************************************************************)
(* Startup: db.connect().then(setupDatabase; listen).catch(exit)           *)
(***************************************************************************)
Init ==
    /\ phase = "connecting"
    /\ failure = "none"
    /\ exitCode = -1
    /\ schemaReady = FALSE
    /\ db \in PriorDbs
    /\ pending = {}
    /\ last = NoRequest
    /\ pre \in {db}
    /\ repeat = FALSE

\* db.connect() resolves or rejects
Connect ==
    /\ phase = "connecting"
    /\ \E ok \in BOOLEAN :
        IF ok THEN phase' = "connected" /\ failure' = failure
        ELSE phase' = "rejected" /\ failure' = "connect"
    /\ UNCHANGED <<exitCode, schemaReady, db, pending, last, pre, repeat>>

\* await db.query(sqlScript) resolves
SetupDatabaseOk ==
    /\ phase = "connected"
    /\ phase' = "setup_done"
    /\ db' = SetupScript(db)
    /\ schemaReady' = TRUE
    /\ UNCHANGED <<failure, exitCode, pending, last, pre, repeat>>

\* a setupDatabase whose catch block logs the error and returns
SetupDatabaseFailSwallowed ==
    /\ phase = "connected"
    /\ phase' = "setup_done"
    /\ failure' = "setup"
    /\ UNCHANGED <<exitCode, schemaReady, db, pending, last, pre, repeat>>

\* await db.query(sqlScript) rejects: the script, one implicit transaction,
\* is rolled back; the catch block logs and rethrows
SetupDatabaseFail ==
    /\ phase = "connected"
    /\ phase' = "rejected"
    /\ failure' = "setup"
    /\ UNCHANGED <<exitCode, schemaReady, db, pending, last, pre, repeat>>

\* an app.listen placed where setupDatabase() has been called but not awaited
CanListenNoAwait == phase \in {"connected", "setup_done"}

\* app.listen is reached once `await setupDatabase()` has returned
CanListen == phase = "setup_done"

Listen ==
    /\ CanListen
    /\ phase' = "listening"
    /\ UNCHANGED <<failure, exitCode, schemaReady, db, pending, last, pre, repeat>>

\* .catch((err) => { console.error(...); process.exit(1) })
ExitOnError ==
    /\ phase = "rejected"
    /\ phase' = "exited"
    /\ exitCode' = 1
    /\ UNCHANGED <<failure, schemaReady, db, pending, last, pre, repeat>>

\* Express dispatches requests once the server listens
Serving == phase = "listening"

(***************************************************************************)
(* Route handlers.  `broken` is the connection failing under the query.    *)
(***************************************************************************)
\* app.get('/')
GetRoot ==
    /\ Serving
    /\ Complete("GET /", <<>>, GetRootSends, Resolved(<<>>), {}, db, pending)

\* app.get('/players')
GetPlayers ==
    /\ Serving
    /\ \E broken \in BOOLEAN, rows \in SelectPlayers(db) :
        LET result == IF broken THEN Rejected(ErrConnection) ELSE Resolved(rows)
        IN  Complete("GET /players", <<>>, ListSends(result), result, {}, db, pending)

\* app.get('/players/:id')
GetPlayerById(id) ==
    /\ Serving
    /\ \E broken \in BOOLEAN :
        LET err == ParamError(id, broken)
        IN  IF err # "" THEN
                Complete("GET /players/:id", id, GetPlayerSends(Rejected(err)),
                         Rejected(err), {}, db, pending)
            ELSE \E rows \in SelectPlayerById(db, ParseInt4(id).val) :
                Complete("GET /players/:id", id, GetPlayerSends(Resolved(rows)),
                         Resolved(rows), {}, db, pending)

\* app.delete('/players/:id')
DeletePlayer(id) ==
    /\ Serving
    /\ \E broken \in BOOLEAN :
        LET err == ParamError(id, broken)
            del == DeletePlayerById(db, ParseInt4(id).val)
        IN  IF err # "" THEN
                Complete("DELETE /players/:id", id, DeletePlayerSends(Rejected(err)),
                         Rejected(err), {}, db, pending)
            ELSE \E rows \in del.rows :
                Complete("DELETE /players/:id", id, DeletePlayerSends(Resolved(rows)),
                         Resolved(rows), {}, del.db, pending)

\* app.get('/games')
GetGames ==
    /\ Serving
    /\ \E broken \in BOOLEAN, rows \in SelectGames(db) :
        LET result == IF broken THEN Rejected(ErrConnection) ELSE Resolved(rows)
        IN  Complete("GET /games", <<>>, ListSends(result), result, {}, db, pending)

\* app.get('/games/:id') up to its first await: the join.  Rows, or a
\* rejection, answer the request; an empty join leaves it pending.
GetGameById(id) ==
    /\ Serving
    /\ \E broken \in BOOLEAN :
        LET err == ParamError(id, broken)
            n == ParseInt4(id).val
        IN  IF err # "" THEN
                Complete("GET /games/:id", id, <<CatchResponse(err)>>, Rejected(err),
                         {}, db, pending)
            ELSE \E rows \in SelectScores(db, n) :
                IF Len(rows) # 0 THEN
                    Complete("GET /games/:id", id,
                             <<Response(200, "array", rows, "", "")>>, Resolved(rows),
                             AtomicGetGame(db, n), db, pending)
                ELSE
                    /\ Cardinality(pending) < MaxInFlight
                    /\ pending' = pending \cup {[id |-> id, answers |-> AtomicGetGame(db, n)]}
                    /\ UNCHANGED <<phase, failure, exitCode, schemaReady, db, last,
                                   pre, repeat>>

\* app.get('/games/:id') from its second await: the existence check
GetGameByIdExists(p) ==
    /\ Serving
    /\ \E broken \in BOOLEAN :
        LET err == ParamError(p.id, broken)
        IN  IF err # "" THEN
                Complete("GET /games/:id", p.id, GameExistsSends(Rejected(err)),
                         Rejected(err), p.answers, db, pending \ {p})
            ELSE \E rows \in SelectGameById(db, ParseInt4(p.id).val) :
                Complete("GET /games/:id", p.id, GameExistsSends(Resolved(rows)),
                         Resolved(rows), p.answers, db, pending \ {p})

\* app.delete('/games/:id')
DeleteGame(id) ==
    /\ Serving
    /\ \E broken \in BOOLEAN :
        LET err == ParamError(id, broken)
            del == DeleteGameById(db, ParseInt4(id).val)
        IN  IF err # "" THEN
                Complete("DELETE /games/:id", id, DeleteGameSends(Rejected(err)),
                         Rejected(err), {}, db, pending)
            ELSE \E rows \in del.rows :
                Complete("DELETE /games/:id", id, DeleteGameSends(Resolved(rows)),
                         Resolved(rows), {}, del.db, pending)

Next ==
    \/ Connect
    \/ SetupDatabaseOk
    \/ SetupDatabaseFail
    \/ Listen
    \/ ExitOnError
    \/ GetRoot
    \/ GetPlayers
    \/ \E id \in PathIds : GetPlayerById(id)
    \/ \E id \in PathIds : DeletePlayer(id)
    \/ GetGames
    \/ \E id \in PathIds : GetGameById(id)
    \/ \E p \in pending : GetGameByIdExists(p)
    \/ \E id \in PathIds : DeleteGame(id)

Spec == Init /\ [][Next]_vars

(***************************************************************************)
(* Properties                                                              *)
(***************************************************************************)
Sent == last.sent[1]
Row == ParseInt4(last.id).val
GameRow(d, n) == \E g \in d.Game : g.id = n
PlayerRow(d, n) == \E p \in d.Player : p.id = n
GameScores(d, n) == {pg \in d.PlayerGame : pg.gameID = n}
AnsweredGet == last.route = "GET /games/:id" /\ ~last.failed

\* C1: the server listens, and a request is answered, only once the connection
\* is up and the setup script has completed; when the server starts taking
\* requests the tables hold exactly the seed.
C1_ListenAfterSetup ==
    /\ phase = "listening" => schemaReady /\ failure = "none"
    /\ (last # NoRequest \/ pending # {}) => phase = "listening" /\ schemaReady
    /\ phase = "listening" /\ last = NoRequest => db = SeedDb

C1_Witness ==
    /\ phase = "listening"
    /\ last.route = "GET /players"
    /\ Sent.status = 200
    /\ Len(Sent.rows) = 3

\* C2: once the connection or the setup script has failed, the server neither
\* listens nor can start to, no request is answered, and the process has
\* exited with status 1 or its next step is that exit.
C2_StartupFailureExits ==
    failure # "none" =>
        /\ phase \in {"rejected", "exited"}
        /\ ~ENABLED Listen
        /\ last = NoRequest /\ pending = {}
        /\ exitCode \in {-1, 1}
        /\ phase = "exited" => exitCode = 1
        /\ phase = "rejected" => exitCode = -1 /\ ENABLED ExitOnError

C2_Witness == failure = "setup" /\ phase = "exited" /\ exitCode = 1

\* C3: a GET /games/:id whose queries succeeded answers 404 exactly when no
\* Game row has the id, and 200 with an empty array exactly when the Game row
\* exists and no PlayerGame row belongs to it.
C3_GameNotFoundIffNoRow ==
    AnsweredGet =>
        /\ Len(last.sent) = 1
        /\ Sent.status = 404 <=> ~GameRow(db, Row)
        /\ (Sent.status = 200 /\ Sent.rows = <<>>)
               <=> (GameRow(db, Row) /\ GameScores(db, Row) = {})
        /\ Sent.status \in {200, 404}

C3_Witness ==
    /\ AnsweredGet
    /\ Sent.status = 200 /\ Sent.rows = <<>>
    /\ GameRow(db, Row)
    /\ db.Player # {}

\* C4: a DELETE /games/:id answered 200 has removed the Game row and the
\* PlayerGame rows of that game and nothing else, and a GET /games/:id for a
\* game that has been deleted answers 404.
C4_DeleteGameCascades ==
    /\ last.route = "DELETE /games/:id" /\ Sent.status = 200 =>
        /\ GameRow(pre, Row)
        /\ db.Game = {g \in pre.Game : g.id # Row}
        /\ db.PlayerGame = {pg \in pre.PlayerGame : pg.gameID # Row}
        /\ db.Player = pre.Player
    /\ AnsweredGet /\ GameRow(SeedDb, Row) /\ ~GameRow(db, Row) => Sent.status = 404

C4_Witness ==
    /\ AnsweredGet
    /\ Row = 2 /\ ~GameRow(db, 2)
    /\ Sent.status = 404
    /\ db.PlayerGame = {pg \in SeedPlayerGame : pg.gameID # 2}
    /\ db.Player = SeedPlayer

\* C5: a DELETE of an existing row answers 200, and the same DELETE repeated
\* right after it answers 404 and leaves the tables as they were.
C5_SecondDeleteNotFound ==
    /\ last.route = "DELETE /players/:id" /\ ~last.failed =>
        (Sent.status = 200 <=> PlayerRow(pre, Row)) /\ Sent.status \in {200, 404}
    /\ last.route = "DELETE /games/:id" /\ ~last.failed =>
        (Sent.status = 200 <=> GameRow(pre, Row)) /\ Sent.status \in {200, 404}
    /\ repeat => db = pre
    /\ repeat /\ ~last.failed => Sent.status = 404

C5_Witness ==
    /\ repeat /\ ~last.failed
    /\ last.route = "DELETE /players/:id"
    /\ Sent.status = 404
    /\ PlayerRow(SeedDb, Row)

\* C6: once the schema is set up, every PlayerGame row references a Player row
\* and a Game row that exist.
C6_NoOrphanScores ==
    schemaReady =>
        \A pg \in db.PlayerGame : PlayerRow(db, pg.playerID) /\ GameRow(db, pg.gameID)

C6_Witness ==
    /\ phase = "listening"
    /\ pending # {}
    /\ Cardinality(db.Player) = 2
    /\ Cardinality(db.Game) = 2
    /\ db.PlayerGame # {}

\* C7: GET /players/:id answers 404 with an error body for every path id,
\* whatever string it is, that matches no Player row, and 200 with the matching
\* player otherwise; the 500 path is taken only when the connection fails.
C7_PlayerNotFoundForAnyId ==
    last.route = "GET /players/:id" /\ last.err # ErrConnection =>
        LET found == {p \in db.Player : ParseInt4(last.id).ok /\ p.id = Row}
        IN  /\ Len(last.sent) = 1
            /\ IF found = {}
               THEN Sent = NotFound("Player not found")
               ELSE Sent.status = 200 /\ Sent.rows \in Perms(found)

\* C8: a handler one of whose queries failed has sent exactly one response,
\* the generic 500, and has written nothing.
C8_QueryFailureIs500 ==
    last.failed =>
        /\ last.route \in {"GET /players", "GET /players/:id", "DELETE /players/:id",
                           "GET /games", "GET /games/:id", "DELETE /games/:id"}
        /\ Len(last.sent) = 1
        /\ Sent = Response(500, "error", <<>>, "Internal server error", "")
        /\ db = pre

C8_Witness ==
    /\ last.failed
    /\ last.route = "DELETE /games/:id"
    /\ last.err = ErrConnection
    /\ GameRow(db, Row)

\* C9: GET /games/:id for a game with PlayerGame rows lists one {name, score}
\* per row, the name that of the referenced Player, scores never increasing;
\* on the seed that is the lists of games 1 and 3 given by the specification;
\* no list names a deleted player.
C9_ScoresListed ==
    AnsweredGet =>
        /\ GameRow(db, Row) /\ GameScores(db, Row) # {}
               => Sent.status = 200 /\ Len(Sent.rows) > 0
        /\ Sent.status = 200 =>
            /\ \E f \in Perms(GameScores(db, Row)) :
                 /\ Len(f) = Len(Sent.rows)
                 /\ \A i \in DOMAIN f :
                      /\ Sent.rows[i].score = f[i].score
                      /\ \E p \in db.Player :
                           p.id = f[i].playerID /\ p.name = Sent.rows[i].name
            /\ \A i, j \in DOMAIN Sent.rows :
                 i < j => Sent.rows[i].score >= Sent.rows[j].score
            /\ \A i \in DOMAIN Sent.rows :
                 Sent.rows[i].name \notin {p.name : p \in SeedPlayer \ db.Player}
            /\ db = SeedDb /\ Row = 1 =>
                 Sent.rows = << [name |-> "Mr. Monopoly", score |-> 2500],
                                [name |-> "Sebastian", score |-> 1500] >>
            /\ db = SeedDb /\ Row = 3 =>
                 Sent.rows = << [name |-> "Mr. Monopoly", score |-> 5000],
                                [name |-> "Thimble", score |-> 4500] >>

C9_Witness ==
    /\ AnsweredGet
    /\ Row = 2
    /\ ~PlayerRow(db, 3)
    /\ Sent.rows = << [name |-> "Sebastian", score |-> 3200],
                      [name |-> "Mr. Monopoly", score |-> 1800] >>

\* C10: whatever DELETE requests ran between the two queries of a
\* GET /games/:id, its response is the one a single read of the tables, as
\* they stood at some moment from its first query to its response, would give.
C10_GetGameLinearizable ==
    AnsweredGet => Len(last.sent) = 1 /\ Sent \in last.answers

C10_Witness ==
    /\ AnsweredGet
    /\ Sent.status = 404
    /\ Response(200, "array", <<>>, "", "") \in last.answers
    /\ GameRow(pre, Row) = FALSE

====
